---- MODULE Spec2Model ----
(***************************************************************************)
(* Model of StreamlitBrowserSearchBot (src/streamlit_app.py): the chain of *)
(* search stages behind search_and_summarize / search_with_google, the     *)
(* static catalog, the knowledge-only responder, and the bot fields they   *)
(* write (current_status, search_results, scraped_content,                 *)
(* screenshot_queue).                                                      *)
(*                                                                         *)
(* The Python call stack is explicit: `stack` holds one frame per active   *)
(* method call, `pc` is the position inside the top frame.  A call made at *)
(* the interpreter's recursion limit raises RecursionError at the call     *)
(* site; an exception unwinds frame by frame to the nearest frame whose    *)
(* pending call sits inside a try block.                                   *)
(*                                                                         *)
(* search_with_duckduckgo (line 484) has the body of the Google flow,      *)
(* which returns or raises on every path, so lines 647-745 (the DuckDuckGo *)
(* flow proper) are never executed; the model follows the code that runs.  *)
(***************************************************************************)
EXTENDS Integers, Sequences, FiniteSets, TLC

(* ------------------------------ bounds --------------------------------- *)
\* interpreter recursion limit, counted in bot-method frames
RecursionLimit == 3
\* most results one page yields to the extractor
MaxExtract == 3
\* largest max_results a caller passes (the default of every method is 5)
MaxCap == 5

(* ------------------------------ names ---------------------------------- *)
GOOGLE == "search_with_google"
DDG == "search_with_duckduckgo"
SAS == "search_and_summarize"
FSAS == "fallback_search_and_summarize"
AIONLY == "generate_ai_only_response"
CATALOG == "fallback_search_api"

\* methods a caller invokes on a constructed bot: the three main() uses
\* (lines 1067-1072) and fallback_search_and_summarize called directly
EntryPoints == {SAS, GOOGLE, AIONLY, FSAS}
\* the stages of the chain
Stages == {GOOGLE, DDG, CATALOG, AIONLY}

NoRecord == [none |-> TRUE]

(* --------------------------- text helpers ------------------------------ *)
\* str.lower() on the words the model uses
Lower(w) ==
    CASE w = "CAPTCHA" -> "captcha"
      [] w = "Captcha" -> "captcha"
      [] w = "Unusual Traffic" -> "unusual traffic"
      [] w = "Not A Robot" -> "not a robot"
      [] w = "AI" -> "ai"
      [] w = "Trends" -> "trends"
      [] w = "LATEST" -> "latest"
      [] OTHER -> w

\* rendered documents, each a set of phrases it contains
Pages ==
    { {"results"}, {"CAPTCHA"}, {"captcha", "results"}, {"Unusual Traffic"},
      {"Not A Robot", "results"}, {"unusual traffic"} }

PageAsIs(page) == page

\* `page.content().lower()` (lines 362, 424)
PageLower(page) == { Lower(w) : w \in page }

\* line 363: the markers of the pre-submit check
PreSubmitBlocked(page) ==
    \/ "captcha" \in PageLower(page)
    \/ "unusual traffic" \in PageLower(page)
    \/ "not a robot" \in PageLower(page)

\* line 425: the markers of the post-submit check
PostSubmitBlocked(page) ==
    \/ "captcha" \in PageLower(page)
    \/ "unusual traffic" \in PageLower(page)

\* queries: sequences of whitespace-separated words
Queries == { <<"cats", "aixyz">>, <<"AI">>, <<"ai", "Trends">> }

\* texts the Summarizer may complete with
SummaryTexts == { <<"X">> }

DISCLAIMER ==
    "**Note: Web search is currently unavailable, so this response is based on AI knowledge only and may not include the very latest information.**\n\n"


(* ------------------------------ data ----------------------------------- *)
\* the i-th result the extractor reads off the page shown to method `by`
\* running at stack depth `depth` (lines 179-183)
Result(by, depth, i) ==
    [ title   |-> <<"title", by, depth, i>>,
      url     |-> <<"url", by, depth, i>>,
      snippet |-> <<"snippet", by, depth, i>> ]

\* extract_google_results on a page holding n acceptable containers
extract_google_results(by, depth, n) == [ i \in 1..n |-> Result(by, depth, i) ]

\* lines 802-813 and 816-822: the entries of the static catalog
CatalogAI ==
    << [ title   |-> <<"Artificial Intelligence Trends - MIT Technology Review">>,
         url     |-> <<"https://www.technologyreview.com/topic/artificial-intelligence/">>,
         snippet |-> <<"Latest developments in artificial intelligence research and applications.">> ],
       [ title   |-> <<"AI News and Research - OpenAI">>,
         url     |-> <<"https://openai.com/blog">>,
         snippet |-> <<"Research updates and insights from OpenAI on artificial intelligence.">> ] >>

CatalogTrends ==
    << [ title   |-> <<"Tech Trends 2024 - Forbes">>,
         url     |-> <<"https://www.forbes.com/technology/">>,
         snippet |-> <<"Latest technology trends and innovations for 2024.">> ] >>

SearchTermsAsTyped(q) == { q[k] : k \in 1..Len(q) }

\* query.lower().split()
SearchTerms(q) == { Lower(q[k]) : k \in 1..Len(q) }

\* mutant of Take: the slice is forgotten
TakeAll(seq, n) == seq

\* Python's seq[:n] for n >= 0
Take(seq, n) == SubSeq(seq, 1, IF n < Len(seq) THEN n ELSE Len(seq))

\* fallback_search_api (lines 799-824): keyword match on the lower-cased
\* words, then [:5]
fallback_search_api(q) ==
    LET a == IF SearchTerms(q) \cap {"ai", "artificial", "intelligence"} # {}
             THEN CatalogAI ELSE <<>>
        b == IF SearchTerms(q) \cap {"2024", "trends", "latest"} # {}
             THEN CatalogTrends ELSE <<>>
    IN  Take(a \o b, 5)

\* scrape_webpage_content by its outcome: the cleaned text, or a placeholder
\* string that embeds the url (lines 217 and 252)
FetchOutcomes == {"ok", "failed"}

scrape_absent_on_failure(url, outcome) ==
    IF outcome = "ok" THEN <<"text of", url>> ELSE <<>>

scrape_webpage_content(url, outcome) ==
    IF outcome = "ok" THEN <<"text of", url>> ELSE <<"Failed to fetch", url>>

\* the dict appended to scraped_content (lines 450-455)
ScrapedItem(result, content) ==
    [ title |-> result.title, url |-> result.url,
      snippet |-> result.snippet, content |-> content ]

\* outcome of one Summarizer call: a completion, or an exception
SummarizerOutcomes == { [ok |-> TRUE, text |-> t] : t \in SummaryTexts }
                          \cup { [ok |-> FALSE, text |-> <<"quota">>] }

generate_summary_disclaimed(items, out) ==
    <<DISCLAIMER>> \o (IF out.ok THEN out.text ELSE <<"quota">>)

\* generate_summary (lines 278-318): never raises
generate_summary(items, out) ==
    IF items = <<>> THEN <<"No search results found to summarize.">>
    ELSE IF out.ok THEN out.text
    ELSE <<"Could not generate summary due to an error: ">> \o out.text

\* mutant of RunRecord: the two lists end up under each other's key
RunRecordSwapped(q, results, items, summary) ==
    [ query |-> q, search_results |-> items,
      scraped_content |-> results, summary |-> summary ]

\* the record a stage returns after summarizing (lines 469-475)
RunRecord(q, results, items, summary) ==
    [ query |-> q, search_results |-> results,
      scraped_content |-> items, summary |-> summary ]

\* mutant of AiOnlyRecord: the disclaimer is not prepended
AiOnlyRecordNoDisclaimer(q, text) ==
    [ query |-> q, search_results |-> <<>>, scraped_content |-> <<>>,
      summary |-> text ]

\* the record of generate_ai_only_response on success (lines 900-911)
AiOnlyRecord(q, text) ==
    [ query |-> q, search_results |-> <<>>, scraped_content |-> <<>>,
      summary |-> <<DISCLAIMER>> \o text ]

\* mutant of AiErrorRecord: the failure text is also handed out as summary
AiErrorRecordWithSummary(q, cause) ==
    [ error |-> <<"Even AI-only response failed: ">> \o cause, query |-> q,
      summary |-> <<"Even AI-only response failed: ">> \o cause ]

\* the record of generate_ai_only_response on failure (lines 915-921)
AiErrorRecord(q, cause) ==
    [ error |-> <<"Even AI-only response failed: ">> \o cause, query |-> q ]

(* ------------------------------ state ---------------------------------- *)
VARIABLES
    current_status,    \* self.current_status
    search_results,    \* self.search_results
    scraped_content,   \* self.scraped_content
    screenshot_queue,  \* self.screenshot_queue
    activity,          \* what the run appended to self.activity_queue
    entry,             \* the method the caller invoked
    query,             \* its query argument
    max_results,       \* its max_results argument
    stack,             \* active frames, outermost first
    pc,                \* position in the top frame
    local,             \* locals of the top frame
    retval,            \* value travelling back to the caller
    record,            \* what the caller received
    outcome,           \* idle | running | returned | raised
    started,           \* history: entries into each stage
    failReason,        \* history: how each stage first ended unusable
    summarized,        \* history: a summary over a corpus was produced
    everResults,       \* history: some stage obtained a non-empty list
    aiCalls,           \* history: Summarizer calls by the responder
    aiLast,            \* history: outcome of the latest such call
    unitCall,          \* a method applied on its own: its name and arguments
    unitResult,        \* what that application gave back
    pub,               \* get_screenshot in progress (the pipeline's side)
    obs,               \* the observer's drain of screenshot_queue in progress
    feed,              \* self.activity_queue event by event, and its reader
    run                \* how many runs were started on this bot

bot == <<current_status, search_results, scraped_content, screenshot_queue>>
ctl == <<entry, query, max_results, stack, pc, local, retval, record, outcome>>
hist == <<started, failReason, summarized, everResults, aiCalls, aiLast>>
vars == <<bot, activity, ctl, hist>>
aux == <<unitCall, unitResult, pub, obs, feed, run>>
allvars == <<vars, aux>>

\* locals of a frame: the loop index of the fetch loop, the document the
\* page shows (page.content()), the selector candidate search_input was
\* left at and whether that candidate was seen visible, and whether the
\* wait for the results page timed out
NoLocal == [i |-> 0, page |-> {}, input |-> 0, shown |-> FALSE,
            timed_out |-> FALSE]

NoCall == [fn |-> "none"]
NoResult == [none |-> TRUE]
\* get_screenshot not running: no image in hand, none taken; `unread`
\* counts the images put since the observer last took one out
PubIdle == [pc |-> "idle", shot |-> <<>>, taken |-> 0, unread |-> 0]

\* the observer between two drains; latest_screenshot = None is <<>>
ObsIdle == [pc |-> "idle", latest |-> <<>>, waited |-> FALSE]

\* queue.Queue() (line 96) with nothing appended, the page script not
\* draining: `appended` and `drained` count events, `new` and `logs` are
\* new_activity_logs and st.session_state.activity_logs
FeedIdle ==
    [queue |-> <<>>, appended |-> 0, pc |-> "idle", new |-> <<>>,
     logs |-> <<>>, drained |-> <<>>]

\* nothing applied on its own, nobody publishing or draining, the first
\* run on the bot
AuxIdle ==
    /\ unitCall = NoCall
    /\ unitResult = NoResult
    /\ pub = PubIdle
    /\ obs = ObsIdle
    /\ feed = FeedIdle
    /\ run = 1

\* __init__ (lines 91-98), before any call
Init ==
    /\ AuxIdle
    /\ current_status = "idle"
    /\ search_results = <<>>
    /\ scraped_content = <<>>
    /\ screenshot_queue = <<>>
    /\ activity = [last |-> "none", complete |-> 0]
    /\ entry = "none"
    /\ query = <<>>
    /\ max_results = 0
    /\ stack = <<>>
    /\ pc = "idle"
    /\ local = NoLocal
    /\ retval = NoRecord
    /\ record = NoRecord
    /\ outcome = "idle"
    /\ started = [s \in Stages |-> 0]
    /\ failReason = [s \in Stages |-> "none"]
    /\ summarized = FALSE
    /\ everResults = FALSE
    /\ aiCalls = 0
    /\ aiLast = "none"

(* --------------------------- call machinery ---------------------------- *)
Top == stack[Len(stack)]
Depth == Len(stack)
Running(fn, at) == outcome = "running" /\ stack # <<>> /\ Top.fn = fn /\ pc = at
InProvider(at) == outcome = "running" /\ stack # <<>> /\ Top.fn \in {GOOGLE, DDG} /\ pc = at

\* the visit of the results page made by the top frame: one per frame and
\* run, so that results read off different visits differ
Visit == (run - 1) * RecursionLimit + Depth

\* saturating history counter
Bump(n) == IF n < 2 THEN n + 1 ELSE 2

\* log_activity (lines 100-108), as far as the run's claims read it: the
\* kind of the last event and how many COMPLETE events were appended
LogAll(kinds) ==
    activity' = [ last |-> kinds[Len(kinds)],
                  complete |-> LET c == Cardinality({k \in 1..Len(kinds) : kinds[k] = "COMPLETE"})
                               IN  IF activity.complete + c < 2 THEN activity.complete + c ELSE 2 ]

\* where a frame resumes when an exception reaches a call made inside its try
HandlerOf(fn) ==
    CASE fn \in {GOOGLE, DDG} -> "handler"
      [] fn = SAS -> "sas_handler"
      [] fn = FSAS -> "fs_handler"
      [] OTHER -> "raise"

\* self.<callee>(...) made by the top frame; `site` is "try" for a call
\* inside the frame's try block, "try_use" for line 860 (result indexed
\* inside the try block), "handler" for a call made by its except clause
Call(callee, site) ==
    IF Depth >= RecursionLimit
    THEN \* RecursionError at the call site
         /\ pc' = IF site = "handler" THEN "raise" ELSE HandlerOf(Top.fn)
         /\ UNCHANGED <<stack, local>>
    ELSE /\ stack' = [stack EXCEPT ![Len(stack)].site = site]
                        \o << [fn |-> callee, site |-> "body"] >>
         /\ pc' = "enter"
         /\ local' = NoLocal

\* history: the stage of the top frame ended without usable output
Fail(stage, reason) ==
    failReason' = IF failReason[stage] = "none"
                  THEN [failReason EXCEPT ![stage] = reason] ELSE failReason

(* ---------------------------- entry points ----------------------------- *)
\* main(), lines 1066-1073: one call on the constructed bot.  The responder
\* takes no max_results (line 876).
StartRun ==
    /\ outcome = "idle"
    /\ \E e \in EntryPoints, q \in Queries, m \in 0..MaxCap :
          /\ e = AIONLY => m = 0
          /\ entry' = e
          /\ query' = q
          /\ max_results' = m
          /\ stack' = << [fn |-> e, site |-> "body"] >>
    /\ pc' = "enter"
    /\ outcome' = "running"
    /\ UNCHANGED <<bot, activity, local, retval, record, hist>>
    /\ UNCHANGED aux

(* ------------- search_with_google / search_with_duckduckgo ------------- *)
\* Both methods run the same statements; each hands over by calling
\* search_with_duckduckgo (lines 367 ... 482 and 531 ... 646).

kept_list(old) == old

\* `self.search_results = []`, `self.scraped_content = []` (lines 323-324,
\* 487-488)
fresh_list(old) == <<>>

\* lines 322-327 (486-491)
ProviderEnter ==
    /\ InProvider("enter")
    /\ current_status' = "running"
    /\ search_results' = fresh_list(search_results)
    /\ scraped_content' = fresh_list(scraped_content)
    /\ LogAll(<<"START", "WARNING">>)
    /\ started' = [started EXCEPT ![Top.fn] = Bump(@)]
    /\ pc' = "launch"
    /\ UNCHANGED <<screenshot_queue, entry, query, max_results, stack, local,
                   retval, record, outcome, failReason, summarized,
                   everResults, aiCalls, aiLast>>
    /\ UNCHANGED aux

\* lines 330-353: sync_playwright(), launch, new_context, new_page
Launch ==
    /\ InProvider("launch")
    /\ \E ok \in BOOLEAN :
          pc' = IF ok THEN "navigate" ELSE "handler"
    /\ LogAll(<<"BROWSER">>)
    /\ UNCHANGED <<bot, entry, query, max_results, stack, local, retval,
                   record, outcome, hist>>
    /\ UNCHANGED aux

\* lines 355-359: goto, and a second goto after a timeout
Navigate ==
    /\ InProvider("navigate")
    /\ \E o \in {"ok", "timeout_then_ok", "timeout_then_raise"} :
          IF o = "timeout_then_raise"
          THEN /\ pc' = "handler"
               /\ UNCHANGED local
          ELSE \E page \in Pages :
                  /\ pc' = "precheck"
                  /\ local' = [local EXCEPT !.page = page]
    /\ LogAll(<<"BROWSER">>)
    /\ UNCHANGED <<bot, entry, query, max_results, stack, retval,
                   record, outcome, hist>>
    /\ UNCHANGED aux

\* lines 361-367: the pre-submit interstitial check
InterstitialCheck ==
    /\ InProvider("precheck")
    /\ IF PreSubmitBlocked(local.page)
       THEN /\ LogAll(<<"ERROR">>)
            /\ Fail(Top.fn, "blocked")
            /\ Call(DDG, "try")
       ELSE /\ pc' = "cookie"
            /\ UNCHANGED <<activity, failReason, stack, local>>
    /\ UNCHANGED <<bot, entry, query, max_results, retval, record, outcome,
                   started, summarized, everResults, aiCalls, aiLast>>
    /\ UNCHANGED aux

\* lines 369-378: cookie consent, every failure ignored
CookieConsent ==
    /\ InProvider("cookie")
    /\ LogAll(<<"BROWSER">>)
    /\ pc' = "locate"
    /\ UNCHANGED <<bot, entry, query, max_results, stack, local, retval,
                   record, outcome, hist>>
    /\ UNCHANGED aux

\* lines 381-388
search_selectors ==
    << "textarea[name='q']", "input[name='q']", "textarea[title='Search']",
       "input[title='Search']", "#APjFqb", ".gLFyf" >>

\* lines 390-398: search_input is assigned before is_visible is asked, so
\* after the loop it is the first visible candidate, or the last candidate
\* when none is visible
LocatedInput(visible) ==
    IF visible = {} THEN Len(search_selectors)
    ELSE CHOOSE k \in visible : \A j \in visible : k <= j

\* lines 390-414: pick the input, then click, fill, type, press; a missing
\* input or any exception while typing hands over
SubmitQuery ==
    /\ InProvider("locate")
    /\ \E visible \in SUBSET (1..Len(search_selectors)), typed \in BOOLEAN :
          IF LocatedInput(visible) = 0
          THEN \* line 400: `not search_input`
               /\ LogAll(<<"ERROR">>)
               /\ Fail(Top.fn, "failed")
               /\ Call(DDG, "try")
          ELSE IF typed
          THEN /\ LogAll(<<"BROWSER">>)
               /\ pc' = "wait"
               /\ local' = [local EXCEPT
                               !.input = LocatedInput(visible),
                               !.shown = LocatedInput(visible) \in visible]
               /\ UNCHANGED <<stack, failReason>>
          ELSE /\ LogAll(<<"BROWSER", "ERROR">>)
               /\ Fail(Top.fn, "failed")
               /\ Call(DDG, "try")
    /\ UNCHANGED <<bot, entry, query, max_results, retval, record, outcome,
                   started, summarized, everResults, aiCalls, aiLast>>
    /\ UNCHANGED aux

AfterWaitFatal(timeout) == IF timeout THEN "handler" ELSE "postcheck"

\* lines 416-421: PlaywrightTimeoutError is caught around the two waits,
\* the statement after them is the post-submit check either way
AfterWait(timeout) == "postcheck"

\* lines 416-421: a timeout is logged and the flow goes on with the page
\* as it is rendered by then; search_input is not read again
WaitResults ==
    /\ InProvider("wait")
    /\ \E timeout \in BOOLEAN, page \in Pages :
          /\ IF timeout THEN LogAll(<<"WARNING">>) ELSE UNCHANGED activity
          /\ pc' = AfterWait(timeout)
          /\ local' = [local EXCEPT !.page = page, !.input = 0,
                                    !.shown = FALSE, !.timed_out = timeout]
    /\ UNCHANGED <<bot, entry, query, max_results, stack, retval,
                   record, outcome, hist>>
    /\ UNCHANGED aux

\* lines 423-428: the post-submit interstitial check
InterstitialRecheck ==
    /\ InProvider("postcheck")
    /\ IF PostSubmitBlocked(local.page)
       THEN /\ LogAll(<<"ERROR">>)
            /\ Fail(Top.fn, "blocked")
            /\ Call(DDG, "try")
       ELSE /\ pc' = "capture"
            /\ UNCHANGED <<activity, failReason, stack, local>>
    /\ UNCHANGED <<bot, entry, query, max_results, retval, record, outcome,
                   started, summarized, everResults, aiCalls, aiLast>>
    /\ UNCHANGED aux

\* get_screenshot (lines 259-276): drain the queue, then put the new image
get_screenshot(queue, shot) == << shot >>

get_screenshot_drained(queue) == <<>>

\* get_screenshot when page.screenshot raises (lines 262, 274-276): the
\* except clause is reached before the queue is touched
get_screenshot_failed(queue) == queue

\* lines 430-433
Capture ==
    /\ InProvider("capture")
    /\ \E ok \in BOOLEAN :
          IF ok
          THEN /\ screenshot_queue' = get_screenshot(screenshot_queue, <<"png", Top.fn>>)
               /\ LogAll(<<"SCREENSHOT">>)
          ELSE /\ LogAll(<<"ERROR">>)
               /\ screenshot_queue' = get_screenshot_failed(screenshot_queue)
    /\ pc' = "extract"
    /\ UNCHANGED <<current_status, search_results, scraped_content, entry,
                   query, max_results, stack, local, retval, record, outcome,
                   hist>>
    /\ UNCHANGED aux

\* lines 435-442: extract, close the browser, hand over on an empty list
Extract ==
    /\ InProvider("extract")
    /\ \E n \in 0..MaxExtract :
          /\ search_results' = extract_google_results(Top.fn, Visit, n)
          /\ everResults' = (everResults \/ n > 0)
          /\ IF n = 0
             THEN /\ LogAll(<<"SCRAPING", "SUCCESS", "WARNING">>)
                  /\ Fail(Top.fn, "failed")
                  /\ Call(DDG, "try")
             ELSE /\ LogAll(<<"SCRAPING", "SUCCESS", "INFO">>)
                  /\ pc' = "fetch"
                  /\ local' = [local EXCEPT !.i = 0, !.page = {}]
                  /\ UNCHANGED <<stack, failReason>>
    /\ UNCHANGED <<current_status, scraped_content, screenshot_queue, entry,
                   query, max_results, retval, record, outcome, started,
                   summarized, aiCalls, aiLast>>
    /\ UNCHANGED aux

\* mutant of FetchStep: the slice is walked from its end
FetchStepReversed(results, cap, i, items, fetched) ==
    Append(items, ScrapedItem(Take(results, cap)[Len(Take(results, cap)) - i], fetched))

\* one iteration of `for i, result in enumerate(results[:max_results])`
\* (lines 446-458): fetch the next result and append its item
FetchStep(results, cap, i, items, fetched) ==
    Append(items, ScrapedItem(Take(results, cap)[i + 1], fetched))

\* lines 446-458
FetchLoop ==
    /\ InProvider("fetch")
    /\ IF local.i < Len(Take(search_results, max_results))
       THEN \E o \in FetchOutcomes :
               /\ scraped_content' =
                     FetchStep(search_results, max_results, local.i, scraped_content,
                               scrape_webpage_content(Take(search_results, max_results)[local.i + 1].url, o))
               /\ local' = [local EXCEPT !.i = @ + 1]
               /\ LogAll(<<"PROGRESS", "SCRAPING", IF o = "ok" THEN "SUCCESS" ELSE "SCRAPING">>)
               /\ pc' = "fetch"
       ELSE /\ pc' = "check"
            /\ local' = NoLocal
            /\ UNCHANGED <<scraped_content, activity>>
    /\ UNCHANGED <<current_status, search_results, screenshot_queue, entry,
                   query, max_results, stack, retval, record, outcome, hist>>
    /\ UNCHANGED aux

\* lines 460-462: nothing scraped, hand over
CheckContent ==
    /\ InProvider("check")
    /\ IF scraped_content = <<>>
       THEN /\ LogAll(<<"WARNING">>)
            /\ Fail(Top.fn, "failed")
            /\ Call(DDG, "try")
       ELSE /\ pc' = "summarize"
            /\ UNCHANGED <<activity, failReason, stack, local>>
    /\ UNCHANGED <<bot, entry, query, max_results, retval, record, outcome,
                   started, summarized, everResults, aiCalls, aiLast>>
    /\ UNCHANGED aux

\* lines 464-475: summarize the corpus, mark complete, return the record
Summarize ==
    /\ InProvider("summarize")
    /\ \E out \in SummarizerOutcomes :
          /\ retval' = RunRecord(query, search_results, scraped_content,
                                 generate_summary(scraped_content, out))
          /\ LogAll(<<"AI", IF out.ok THEN "SUCCESS" ELSE "ERROR", "COMPLETE">>)
    /\ current_status' = "complete"
    /\ summarized' = TRUE
    /\ pc' = "return"
    /\ UNCHANGED <<search_results, scraped_content, screenshot_queue, entry,
                   query, max_results, stack, local, record, outcome, started,
                   failReason, everResults, aiCalls, aiLast>>
    /\ UNCHANGED aux

\* lines 477-482: the except clause marks error and hands over
ProviderHandler ==
    /\ InProvider("handler")
    /\ current_status' = "error"
    /\ LogAll(<<"ERROR">>)
    /\ Fail(Top.fn, "failed")
    /\ Call(DDG, "handler")
    /\ UNCHANGED <<search_results, scraped_content, screenshot_queue, entry,
                   query, max_results, retval, record, outcome, started,
                   summarized, everResults, aiCalls, aiLast>>
    /\ UNCHANGED aux

(* ------------------------ search_and_summarize ------------------------- *)
\* lines 925-927
SasEnter ==
    /\ Running(SAS, "enter")
    /\ Call(DDG, "try")
    /\ UNCHANGED <<bot, activity, entry, query, max_results, retval, record,
                   outcome, hist>>
    /\ UNCHANGED aux

\* lines 928-931
SasHandler ==
    /\ Running(SAS, "sas_handler")
    /\ LogAll(<<"ERROR">>)
    /\ Call(AIONLY, "handler")
    /\ UNCHANGED <<bot, entry, query, max_results, retval, record, outcome,
                   hist>>
    /\ UNCHANGED aux

(* ---------------------- generate_ai_only_response ---------------------- *)
\* mutant of AiOnlyStatus: the except clause does not mark the error
AiOnlyStatusAlwaysComplete(ok) == "complete"

\* lines 902 and 914: the status the responder leaves
AiOnlyStatus(ok) == IF ok THEN "complete" ELSE "error"

\* lines 878-921: one Summarizer call; success marks complete and returns
\* the disclaimed summary, an exception marks error and returns the error
\* record
AiOnly ==
    /\ Running(AIONLY, "enter")
    /\ \E out \in SummarizerOutcomes :
          /\ retval' = IF out.ok THEN AiOnlyRecord(query, out.text)
                       ELSE AiErrorRecord(query, out.text)
          /\ current_status' = AiOnlyStatus(out.ok)
          /\ LogAll(<<"AI", IF out.ok THEN "COMPLETE" ELSE "ERROR">>)
          /\ aiLast' = IF out.ok THEN "ok" ELSE "failed"
    /\ aiCalls' = Bump(aiCalls)
    /\ started' = [started EXCEPT ![AIONLY] = Bump(@)]
    /\ pc' = "return"
    /\ UNCHANGED <<search_results, scraped_content, screenshot_queue, entry,
                   query, max_results, stack, local, record, outcome,
                   failReason, summarized, everResults>>
    /\ UNCHANGED aux

(* -------------------- fallback_search_and_summarize -------------------- *)
\* lines 832-840: consult the catalog; empty, go to the responder
FsEnter ==
    /\ Running(FSAS, "enter")
    /\ search_results' = fallback_search_api(query)
    /\ started' = [started EXCEPT ![CATALOG] = Bump(@)]
    /\ everResults' = (everResults \/ fallback_search_api(query) # <<>>)
    /\ LogAll(<<"FALLBACK", "FALLBACK">>)
    /\ IF fallback_search_api(query) = <<>>
       THEN /\ Fail(CATALOG, "failed")
            /\ Call(AIONLY, "try")
       ELSE /\ pc' = "fs_fetch"
            /\ local' = [local EXCEPT !.i = 0]
            /\ UNCHANGED <<stack, failReason>>
    /\ UNCHANGED <<current_status, scraped_content, screenshot_queue, entry,
                   query, max_results, retval, record, outcome, summarized,
                   aiCalls, aiLast>>
    /\ UNCHANGED aux

\* lines 843-855
FsFetchLoop ==
    /\ Running(FSAS, "fs_fetch")
    /\ IF local.i < Len(Take(search_results, max_results))
       THEN \E o \in FetchOutcomes :
               /\ scraped_content' =
                     FetchStep(search_results, max_results, local.i, scraped_content,
                               scrape_webpage_content(Take(search_results, max_results)[local.i + 1].url, o))
               /\ local' = [local EXCEPT !.i = @ + 1]
               /\ LogAll(<<"PROGRESS", "SCRAPING", IF o = "ok" THEN "SUCCESS" ELSE "SCRAPING">>)
               /\ pc' = "fs_fetch"
       ELSE /\ pc' = "fs_check"
            /\ local' = NoLocal
            /\ UNCHANGED <<scraped_content, activity>>
    /\ UNCHANGED <<current_status, search_results, screenshot_queue, entry,
                   query, max_results, stack, retval, record, outcome, hist>>
    /\ UNCHANGED aux

\* lines 857-871 with items: summarize, mark complete, return the record;
\* line 860 without items: call the responder and index its result
FsSummarize ==
    /\ Running(FSAS, "fs_check")
    /\ IF scraped_content # <<>>
       THEN /\ \E out \in SummarizerOutcomes :
                  /\ retval' = RunRecord(query, search_results, scraped_content,
                                         generate_summary(scraped_content, out))
                  /\ LogAll(<<"AI", IF out.ok THEN "SUCCESS" ELSE "ERROR", "COMPLETE">>)
            /\ current_status' = "complete"
            /\ summarized' = TRUE
            /\ pc' = "return"
            /\ UNCHANGED <<stack, local, failReason>>
       ELSE /\ Fail(CATALOG, "failed")
            /\ Call(AIONLY, "try_use")
            /\ UNCHANGED <<retval, current_status, summarized, activity>>
    /\ UNCHANGED <<search_results, scraped_content, screenshot_queue, entry,
                   query, max_results, record, outcome, started, everResults,
                   aiCalls, aiLast>>
    /\ UNCHANGED aux

\* lines 860-871 after the responder returned: ['summary'] on its record,
\* KeyError on the error record
FsUseResponse ==
    /\ Running(FSAS, "use")
    /\ IF "summary" \in DOMAIN retval
       THEN /\ retval' = RunRecord(query, search_results, scraped_content,
                                   retval.summary)
            /\ current_status' = "complete"
            /\ LogAll(<<"COMPLETE">>)
            /\ pc' = "return"
       ELSE /\ pc' = "fs_handler"
            /\ UNCHANGED <<retval, current_status, activity>>
    /\ UNCHANGED <<search_results, scraped_content, screenshot_queue, entry,
                   query, max_results, stack, local, record, outcome, hist>>
    /\ UNCHANGED aux

\* lines 873-874
FsHandler ==
    /\ Running(FSAS, "fs_handler")
    /\ Call(AIONLY, "handler")
    /\ UNCHANGED <<bot, activity, entry, query, max_results, retval, record,
                   outcome, hist>>
    /\ UNCHANGED aux

(* ------------------------- return and unwinding ------------------------ *)
\* the innermost suspended frame whose pending call is at one of `sites`
\* (0: none)
Innermost(sites) ==
    LET ks == { k \in 1..(Len(stack) - 1) : stack[k].site \in sites }
    IN  IF ks = {} THEN 0 ELSE CHOOSE k \in ks : \A j \in ks : j <= k

\* `return value`: every caller made its call as `return self.f(...)` and
\* returns the value in turn, except line 860, which uses it
Return ==
    /\ outcome = "running" /\ pc = "return"
    /\ stack' = SubSeq(stack, 1, Innermost({"try_use"}))
    /\ IF Innermost({"try_use"}) = 0
       THEN /\ outcome' = "returned"
            /\ record' = retval
            /\ pc' = "done"
       ELSE /\ pc' = "use"
            /\ UNCHANGED <<outcome, record>>
    /\ UNCHANGED <<bot, activity, entry, query, max_results, local, retval, hist>>
    /\ UNCHANGED aux

\* an exception leaves the top frame and every caller whose pending call is
\* in its except clause; the first caller whose call is inside its try block
\* catches it
Raise ==
    /\ outcome = "running" /\ pc = "raise"
    /\ stack' = SubSeq(stack, 1, Innermost({"try", "try_use"}))
    /\ IF Innermost({"try", "try_use"}) = 0
       THEN /\ outcome' = "raised"
            /\ pc' = "done"
       ELSE /\ pc' = HandlerOf(stack[Innermost({"try", "try_use"})].fn)
            /\ UNCHANGED outcome
    /\ UNCHANGED <<bot, activity, entry, query, max_results, local, retval,
                   record, hist>>
    /\ UNCHANGED aux

Next ==
    \/ StartRun
    \/ ProviderEnter \/ Launch \/ Navigate \/ InterstitialCheck
    \/ CookieConsent \/ SubmitQuery \/ WaitResults
    \/ InterstitialRecheck \/ Capture \/ Extract \/ FetchLoop
    \/ CheckContent \/ Summarize \/ ProviderHandler
    \/ SasEnter \/ SasHandler
    \/ AiOnly
    \/ FsEnter \/ FsFetchLoop \/ FsSummarize \/ FsUseResponse \/ FsHandler
    \/ Return \/ Raise

Spec == Init /\ [][Next]_vars

(* ------------------- several runs on the same bot ---------------------- *)
MaxRuns == 2       \* runs started on one bot

\* the three calls the page script makes (lines 1067-1072)
UiEntryPoints == {SAS, GOOGLE, AIONLY}

\* what is typed into the search box; the catalog, the only reader of the
\* words, has no caller on these paths
UiQueries == { <<"cats", "aixyz">> }

\* lines 1060-1073, the first search on a constructed bot; the slider of
\* line 976 starts at 1, the responder is not given its value
UiStartRun ==
    /\ outcome = "idle"
    /\ \E e \in UiEntryPoints, q \in UiQueries, m \in 1..MaxCap :
          /\ e = AIONLY => m = 1
          /\ entry' = e
          /\ query' = q
          /\ max_results' = m
          /\ stack' = << [fn |-> e, site |-> "body"] >>
    /\ pc' = "enter"
    /\ outcome' = "running"
    /\ UNCHANGED <<bot, activity, local, retval, record, hist>>
    /\ UNCHANGED aux

\* lines 1060-1073, a further search on the bot kept in session_state
\* (line 1062 forgets the record of the search before); the histories
\* are those of the run that starts
UiNextRun ==
    /\ outcome \in {"returned", "raised"}
    /\ run < MaxRuns
    /\ run' = run + 1
    /\ \E e \in UiEntryPoints, q \in UiQueries, m \in 1..MaxCap :
          /\ e = AIONLY => m = 1
          /\ entry' = e
          /\ query' = q
          /\ max_results' = m
          /\ stack' = << [fn |-> e, site |-> "body"] >>
    /\ pc' = "enter"
    /\ outcome' = "running"
    /\ local' = NoLocal
    /\ retval' = NoRecord
    /\ record' = NoRecord
    /\ activity' = [last |-> "none", complete |-> 0]
    /\ started' = [s \in Stages |-> 0]
    /\ failReason' = [s \in Stages |-> "none"]
    /\ summarized' = FALSE
    /\ everResults' = FALSE
    /\ aiCalls' = 0
    /\ aiLast' = "none"
    /\ UNCHANGED <<bot, unitCall, unitResult, pub, obs, feed>>

\* the statements these entry points can reach
NextRuns ==
    \/ UiStartRun \/ UiNextRun
    \/ ProviderEnter \/ Launch \/ Navigate \/ InterstitialCheck
    \/ CookieConsent \/ SubmitQuery \/ WaitResults
    \/ InterstitialRecheck \/ Capture \/ Extract \/ FetchLoop
    \/ CheckContent \/ Summarize \/ ProviderHandler
    \/ SasEnter \/ SasHandler
    \/ AiOnly
    \/ Return \/ Raise

SpecRuns == Init /\ [][NextRuns]_allvars

(* ======================================================================= *)
(*                               Properties                                *)
(* ======================================================================= *)
ChainEntry == entry \in {SAS, GOOGLE}
Returned == outcome = "returned"
HasSummary == "summary" \in DOMAIN record
HasError == "error" \in DOMAIN record

\* the stages a run goes through, in order, from the stage its entry point
\* starts with
ChainOrder(e) ==
    CASE e = GOOGLE -> <<GOOGLE, DDG, CATALOG, AIONLY>>
      [] e = SAS    -> <<DDG, CATALOG, AIONLY>>
      [] e = FSAS   -> <<CATALOG, AIONLY>>
      [] OTHER      -> <<AIONLY>>

\* the stages before s in that order
Earlier(e, s) ==
    { ChainOrder(e)[j] : j \in { j \in 1..Len(ChainOrder(e)) :
          \E k \in 1..Len(ChainOrder(e)) : ChainOrder(e)[k] = s /\ j < k } }

\* C1: a run started through search_and_summarize or search_with_google
\* never raises outward to its caller.
C1_RunNeverRaisesOutward ==
    ChainEntry => outcome # "raised"

\* C2: when the primary provider (search_with_google) ends blocked and the
\* secondary provider, entered once, succeeds with 3 results, the run with
\* max_results = 5 returns a record whose results and items are those of
\* the secondary provider's invocation, with status complete.
C2_Case ==
    /\ Returned /\ entry = GOOGLE /\ max_results = 5
    /\ failReason[GOOGLE] = "blocked"
    /\ started[DDG] = 1 /\ failReason[DDG] = "none"
    /\ HasSummary /\ Len(record.search_results) = 3

C2_SecondaryAfterBlockedPrimary ==
    C2_Case =>
        /\ current_status = "complete"
        /\ record.search_results = extract_google_results(DDG, 2, 3)
        /\ Len(record.scraped_content) = 3
        /\ \A i \in 1..3 :
              /\ record.scraped_content[i].title = Result(DDG, 2, i).title
              /\ record.scraped_content[i].url = Result(DDG, 2, i).url
              /\ record.scraped_content[i].snippet = Result(DDG, 2, i).snippet

C2_Witness == C2_Case

\* C3: a stage is entered only while no summary over a corpus has been
\* produced, and only when every earlier stage of the run's order was
\* entered and ended without usable output.
C3_StagesInOrder ==
    [][ \A s \in Stages :
          started'[s] > started[s] =>
             /\ ~summarized
             /\ \A e \in Earlier(entry', s) :
                   started[e] > 0 /\ failReason'[e] # "none" ]_vars

\* C4: when a run has ended, every stage that ended without usable output
\* was followed by an attempt of the next stage of the order primary,
\* secondary, catalog, knowledge-only.
C4_NextStageAttempted ==
    (ChainEntry /\ outcome \in {"returned", "raised"}) =>
        /\ failReason[GOOGLE] # "none" => started[DDG] > 0
        /\ failReason[DDG] # "none" => started[CATALOG] > 0
        /\ failReason[CATALOG] # "none" => started[AIONLY] > 0

\* C5: when no provider or catalog stage obtained any result and the
\* Summarizer answers the knowledge-only stage with X, the returned record's
\* summary is the disclaimer followed by X, status is complete and the
\* results list is empty.
C5_Case == Returned /\ ~everResults /\ aiLast = "ok"

C5_KnowledgeOnlyRecord ==
    C5_Case =>
        /\ HasSummary
        /\ record.summary[1] = DISCLAIMER
        /\ SubSeq(record.summary, 2, Len(record.summary)) \in SummaryTexts
        /\ current_status = "complete"
        /\ record.search_results = <<>>

C5_Witness == C5_Case /\ entry = FSAS /\ max_results = 5 /\ started[CATALOG] = 1

\* C6: when the Summarizer call of the knowledge-only stage raised, the run
\* returns with status error and a record that has an error message and no
\* summary field.
C6_Case == Returned /\ aiLast = "failed"

C7_StatusMonotonic ==
    [][ (outcome = "running" /\ current_status \in {"complete", "error"})
           => current_status' = current_status ]_vars

\* C8: at return, status is error exactly when the record carries an error
\* field; such a record has no summary and comes only from a failed
\* Summarizer call of the knowledge-only stage; every other returned run,
\* whatever failed on the way, has status complete and a summary field.
C8_ErrorOnlyFromKnowledgeStage ==
    Returned =>
        /\ (current_status = "error") <=> HasError
        /\ HasError => (~HasSummary /\ aiLast = "failed")
        /\ ~HasError => (current_status = "complete" /\ HasSummary)

\* a run that returns complete although stages failed and the Summarizer
\* failed on the fetched corpus
C8_Witness ==
    /\ Returned /\ current_status = "complete" /\ HasSummary
    /\ failReason[DDG] # "none"
    /\ record.scraped_content # <<>>
    /\ record.summary[1] = "Could not generate summary due to an error: "

\* C9: in every returned record the items are at most max_results and at
\* most the results, while the results are the whole stored list, not cut
\* to max_results.
C9_CapBoundsItemsOnly ==
    (Returned /\ HasSummary) =>
        /\ Len(record.scraped_content) <= max_results
        /\ Len(record.scraped_content) <= Len(record.search_results)
        /\ record.search_results # <<>> => record.search_results = search_results
        /\ summarized => record.search_results = search_results

\* a record holding more results than items
C9_Witness ==
    /\ Returned /\ HasSummary /\ summarized
    /\ Len(record.scraped_content) = max_results
    /\ Len(record.search_results) > max_results

\* C10: in every returned record the i-th item has the title, url and
\* snippet of the i-th entry of the returned results list.
C10_ItemsFollowResults ==
    (Returned /\ HasSummary) =>
        \A i \in 1..Len(record.scraped_content) :
            /\ i <= Len(record.search_results)
            /\ record.scraped_content[i].title = record.search_results[i].title
            /\ record.scraped_content[i].url = record.search_results[i].url
            /\ record.scraped_content[i].snippet = record.search_results[i].snippet

C10_Witness ==
    /\ Returned /\ HasSummary
    /\ Len(record.scraped_content) >= 2
    /\ Len(record.search_results) > Len(record.scraped_content)

\* ------------------------------------------------------------------
\* Result extraction (extract_google_results, extract_duckduckgo_results)
\* applied to rendered documents.  A string is a sequence of tokens cut
\* at the places the code tests: "http" | "s" | "://" | host | path ...
\* ------------------------------------------------------------------

MaxFill == 11      \* plain result containers ahead of the varied ones
MaxVaried == 2     \* containers of arbitrary kind in one document

\* search_containers[:10] (lines 145, 759)
ExtractCap == 10

\* max_results=5 in the callers' signatures (lines 320, 484)
DefaultMaxResults == 5

\* str.lower on one token of a url
LowerToken(t) ==
    CASE t = "Google.com" -> "google.com"
      [] t = "YouTube.com/results" -> "youtube.com/results"
      [] t = "DuckDuckGo.com" -> "duckduckgo.com"
      [] OTHER -> t

\* str.lower (line 177)
LowerUrl(url) == [i \in 1..Len(url) |-> LowerToken(url[i])]

\* str.startswith (lines 158, 165, 175, 772)
StartsWith(s, p) ==
    /\ Len(s) >= Len(p)
    /\ \A i \in 1..Len(p) : s[i] = p[i]

\* `skip in url` (line 177)
Contains(s, sub) ==
    \E k \in 0..(Len(s) - Len(sub)) : \A i \in 1..Len(sub) : s[k + i] = sub[i]

IsSpace(t) == t \in {" ", "\n"}

RECURSIVE LStrip(_)
LStrip(s) ==
    IF s # <<>> /\ IsSpace(Head(s)) THEN LStrip(Tail(s)) ELSE s

RECURSIVE RStrip(_)
RStrip(s) ==
    IF s # <<>> /\ IsSpace(s[Len(s)]) THEN RStrip(SubSeq(s, 1, Len(s) - 1)) ELSE s

\* str.strip (lines 149, 170, 763, 770)
Strip(s) == RStrip(LStrip(s))

\* unquote inside parse_qs: percent escapes of one token
Unquote(t) ==
    CASE t = "%3A%2F%2F" -> "://"
      [] t = "%2F" -> "/"
      [] OTHER -> t

\* index of the first token of s that is in stops, Len(s)+1 when none
RECURSIVE FirstStop(_, _, _)
FirstStop(s, stops, i) ==
    IF i > Len(s) \/ s[i] \in stops THEN i ELSE FirstStop(s, stops, i + 1)

\* urlparse(url).query (line 161): what follows the '?' up to a fragment
UrlQuery(url) ==
    IF url = <<>> THEN <<>>
    ELSE SubSeq(url, 2, FirstStop(url, {"#"}, 2) - 1)

\* parse_qs(query).get('q', [''])[0] (lines 161-162): the first q=...
\* field with a non-blank value, unquoted; '' when there is none
RECURSIVE QueryQ(_)
QueryQ(qs) ==
    IF qs = <<>> THEN <<>>
    ELSE LET stop == FirstStop(qs, {"&"}, 1)
             field == SubSeq(qs, 1, stop - 1)
             rest == SubSeq(qs, stop + 1, Len(qs))
         IN  IF field # <<>> /\ Head(field) = "q=" /\ Len(field) > 1
             THEN [i \in 1..(Len(field) - 1) |-> Unquote(field[i + 1])]
             ELSE QueryQ(rest)

\* the skip list of line 177
GoogleSkips == { <<"google.com">>, <<"youtube.com/results">> }

\* one result container of a rendered page: its title element and the
\* element's text, its link and the link's href, its snippet element,
\* and whether reading it raises ("read": any lookup inside the
\* container; "qs": urlparse/parse_qs on its href)
Container(has_title, text, has_link, href, fault) ==
    [has_title |-> has_title, text |-> text, has_link |-> has_link,
     href |-> href, has_snip |-> FALSE, snip |-> <<>>, fault |-> fault]

\* a plain organic result, the i-th of its page
Plain(i) ==
    [has_title |-> TRUE, text |-> <<" ", "Result", ToString(i), "\n">>,
     has_link |-> TRUE,
     href |-> <<"http", "s", "://", "site.example", "/", ToString(i)>>,
     has_snip |-> TRUE, snip |-> <<"about", ToString(i)>>, fault |-> "none"]

Hrefs ==
    { <<"http", "://", "a.com">>,
      <<"http", "d-manual.html">>,
      <<"ftp", "://", "c.net">>,
      <<"/search?", "q=", "x">>,
      <<"/url?", "q=", "http", "s", "%3A%2F%2F", "d.io", "&", "sa=U">>,
      <<"/url?", "sa=U", "&", "q=">>,
      <<"/url?", "q=", "http", "s", "://", "accounts.", "google.com">>,
      <<"http", "s", "://", "www.", "Google.com", "/maps">>,
      <<"http", "s", "://", "duckduckgo.com", "/y.js">>,
      <<>> }

GoodHref == <<"http", "s", "://", "b.org", "/p">>

\* the kinds of container a page is built from besides plain results
Kinds ==
    { Container(TRUE, <<"Title">>, TRUE, h, "none") : h \in Hrefs }
      \cup { Container(FALSE, <<>>, TRUE, GoodHref, "none"),
             Container(TRUE, <<>>, TRUE, GoodHref, "none"),
             Container(TRUE, <<"Title">>, TRUE, GoodHref, "read"),
             Container(TRUE, <<"Title">>, TRUE,
                       <<"/url?", "q=", "http", "://", "e.com">>, "qs") }

PlainRun(from, n) == [i \in 1..n |-> Plain(from + i - 1)]

VariedSeqs == UNION { [1..n -> Kinds] : n \in 0..MaxVaried }

\* how many plain results lead a page: none, or enough for the page to
\* come near the number of containers the loops examine
Fills == {0} \cup { m \in 1..MaxFill : m + MaxVaried >= ExtractCap }

\* page.content() either raises or gives a document with containers:
\* plain results, then the varied ones, then possibly one more plain one
Docs ==
    { [readable |-> FALSE, containers |-> <<>>] }
      \cup { [readable |-> TRUE,
              containers |-> PlainRun(1, m) \o v
                               \o PlainRun(m + 1, IF tail THEN 1 ELSE 0)] :
                m \in Fills, v \in VariedSeqs, tail \in BOOLEAN }

\* lines 169-170, 769-770
Snippet(c) == IF c.has_snip THEN Strip(c.snip) ELSE <<"No description">>

\* lines 148-149, 762-763
Title(c) == IF c.has_title THEN Strip(c.text) ELSE <<"No title">>

Raised == [exc |-> TRUE, out |-> <<>>]
Gave(out) == [exc |-> FALSE, out |-> out]

UnwrapKeepsWrapper(href) == href

\* lines 161-162: the destination carried by a '/url?' link
Unwrap(href) == QueryQ(UrlQuery(href))

\* lines 173-177
GoogleValid(title, url) ==
    /\ title # <<"No title">>
    /\ url # <<>>
    /\ StartsWith(url, <<"http">>)
    /\ Len(title) > 0
    /\ ~ \E skip \in GoogleSkips : Contains(LowerUrl(url), skip)

\* the body of the loop of extract_google_results, lines 147-183
GoogleContainer(c) ==
    IF c.fault = "read" THEN Raised
    ELSE LET title == Title(c)
             wrapped == c.has_link /\ StartsWith(c.href, <<"/url?">>)
             skipped == /\ c.has_link
                        /\ ~ wrapped
                        /\ \/ StartsWith(c.href, <<"/search?">>)
                           \/ StartsWith(c.href, <<"#">>)
             url == IF ~ c.has_link THEN <<>>
                    ELSE IF wrapped THEN Unwrap(c.href)
                    ELSE c.href
         IN  IF (wrapped /\ c.fault = "qs") \/ skipped THEN Gave(<<>>)
             ELSE IF GoogleValid(title, url)
                  THEN Gave(<< [title |-> title, url |-> url,
                                snippet |-> Snippet(c)] >>)
                  ELSE Gave(<<>>)

\* line 772
DdgValid(title, url) ==
    /\ title # <<"No title">>
    /\ url # <<>>
    /\ StartsWith(url, <<"http">>)

\* the body of the loop of extract_duckduckgo_results, lines 761-777;
\* the link is the title element itself
DdgContainer(c) ==
    IF c.fault = "read" THEN Raised
    ELSE LET title == Title(c)
             url == IF c.has_title /\ c.has_link THEN c.href ELSE <<>>
         IN  IF DdgValid(title, url)
             THEN Gave(<< [title |-> title, url |-> url,
                           snippet |-> Snippet(c)] >>)
             ELSE Gave(<<>>)

ExaminedAll(containers) == containers

\* search_containers[:10] (lines 145, 759)
Examined(containers) == Take(containers, ExtractCap)

InnerTryAbsent(step, results) ==
    [exc |-> step.exc, out |-> results \o step.out]

\* try ... except Exception: continue around one container
\* (lines 146, 185-187 and 760, 779-780)
InnerTry(step, results) ==
    Gave(IF step.exc THEN results ELSE results \o step.out)

\* the for loops of lines 145-187 and 759-780
RECURSIVE ExtractLoop(_, _, _, _)
ExtractLoop(fn, containers, i, results) ==
    IF i > Len(containers) THEN Gave(results)
    ELSE LET step == IF fn = "extract_google_results"
                     THEN GoogleContainer(containers[i])
                     ELSE DdgContainer(containers[i])
             after == InnerTry(step, results)
         IN  IF after.exc THEN Raised
             ELSE ExtractLoop(fn, containers, i + 1, after.out)

\* the outer try of either extractor (lines 123, 192-194 and 749, 785-787)
ExtractResults(fn, page) ==
    IF ~ page.readable THEN Gave(<<>>)
    ELSE LET loop == ExtractLoop(fn, Examined(page.containers), 1, <<>>)
         IN  IF loop.exc THEN Gave(<<>>) ELSE loop

Extractors == {"extract_google_results", "extract_duckduckgo_results"}

\* a caller hands a rendered page to one of the extractors (lines 441, 709)
CallExtractor ==
    /\ unitCall = NoCall
    /\ \E fn \in Extractors, page \in Docs :
         unitCall' = [fn |-> fn, page |-> page]
    /\ UNCHANGED <<vars, unitResult, pub, obs, feed, run>>

\* extract_google_results as a whole (lines 121-194)
GoogleExtractorReturns ==
    /\ unitCall.fn = "extract_google_results"
    /\ unitResult = NoResult
    /\ unitResult' = ExtractResults(unitCall.fn, unitCall.page)
    /\ UNCHANGED <<vars, unitCall, pub, obs, feed, run>>

\* extract_duckduckgo_results as a whole (lines 747-787)
DdgExtractorReturns ==
    /\ unitCall.fn = "extract_duckduckgo_results"
    /\ unitResult = NoResult
    /\ unitResult' = ExtractResults(unitCall.fn, unitCall.page)
    /\ UNCHANGED <<vars, unitCall, pub, obs, feed, run>>

NextExtract ==
    \/ CallExtractor
    \/ GoogleExtractorReturns
    \/ DdgExtractorReturns

SpecExtract == Init /\ [][NextExtract]_allvars

\* ------------------------------------------------------------------
\* Properties of result extraction
\* ------------------------------------------------------------------

\* one of the extractors has returned
Extracted == unitCall.fn \in Extractors /\ unitResult # NoResult

\* the containers of the page in hand that the loop gets to see
Seen == Take(unitCall.page.containers, ExtractCap)

SchemeQualified(url) ==
    \/ StartsWith(url, <<"http", "://">>)
    \/ StartsWith(url, <<"http", "s", "://">>)

\* C11: whichever extractor ran on whichever document, every result it
\* returned has a url that starts with 'http://' or 'https://'.
C11_UrlsSchemeQualified ==
    Extracted =>
        \A k \in 1..Len(unitResult.out) : SchemeQualified(unitResult.out[k].url)

\* C12 as stated: the extractor returns at most maxResults entries
\* (maxResults = 5, the cap the callers are given by default).
C12_AtMostMaxResults ==
    Extracted => Len(unitResult.out) <= DefaultMaxResults

\* r is what container c would be listed as
ListedFrom(r, c) ==
    c.has_title /\ r.title = Strip(c.text) /\ r.snippet = Snippet(c)

\* rs lists, in order, some of the containers cs
RECURSIVE InDocumentOrder(_, _)
InDocumentOrder(rs, cs) ==
    IF rs = <<>> THEN TRUE
    ELSE IF cs = <<>> THEN FALSE
    ELSE IF ListedFrom(Head(rs), Head(cs))
         THEN InDocumentOrder(Tail(rs), Tail(cs))
         ELSE InDocumentOrder(rs, Tail(cs))

\* C12, amended: the extractor returns at most 10 entries whatever cap
\* the run was given, all of them taken from the first 10 containers of
\* the document and listed in document order.
C12_FirstTenInDocumentOrder ==
    Extracted =>
        /\ Len(unitResult.out) <= ExtractCap
        /\ InDocumentOrder(unitResult.out, Seen)

\* a page with more containers than the loop examines, all ten examined
\* ones accepted: more results than the default cap of the callers
C12_Witness ==
    /\ Extracted
    /\ Len(unitCall.page.containers) > ExtractCap
    /\ Len(unitResult.out) = ExtractCap
    /\ Len(unitResult.out) > DefaultMaxResults

IsPlain(c) == c.fault = "none" /\ c.has_snip

\* C13: extraction returns a sequence and never an exception; the
\* sequence is empty when the page cannot be read or holds no container;
\* a container that raises is skipped alone: every plain result among the
\* examined containers is still listed.
C13_ExtractionAbsorbsErrors ==
    Extracted =>
        /\ ~ unitResult.exc
        /\ ~ unitCall.page.readable => unitResult.out = <<>>
        /\ unitCall.page.containers = <<>> => unitResult.out = <<>>
        /\ \A i \in 1..Len(Seen) :
             IsPlain(Seen[i]) =>
                \E k \in 1..Len(unitResult.out) :
                    ListedFrom(unitResult.out[k], Seen[i])

\* a container that raises, followed by a plain result that is listed
C13_Witness ==
    /\ Extracted
    /\ Len(Seen) >= 2
    /\ Seen[1].fault = "read"
    /\ IsPlain(Seen[2])
    /\ Len(unitResult.out) = 1

\* C14: whichever extractor ran, no result it returned has an empty title.
C14_TitlesNonEmpty ==
    Extracted =>
        \A k \in 1..Len(unitResult.out) : unitResult.out[k].title # <<>>

\* the links a provider serves about itself
InternalOf(fn) ==
    IF fn = "extract_google_results" THEN GoogleSkips
    ELSE { <<"duckduckgo.com">> }

\* C15: for each provider, no returned url contains, in any letter case,
\* a substring that marks a link of that provider to itself.
C15_NoInternalLinks ==
    Extracted =>
        \A k \in 1..Len(unitResult.out) :
            ~ \E deny \in InternalOf(unitCall.fn) :
                  Contains(LowerUrl(unitResult.out[k].url), deny)

WrappedHref == <<"/url?", "q=", "http", "s", "%3A%2F%2F", "d.io", "&", "sa=U">>
WrappedDestination == <<"http", "s", "://", "d.io">>
WrappedInternal == <<"http", "s", "://", "accounts.", "google.com">>

\* C16: the primary extractor lists a titled '/url?...q=<destination>'
\* link under its decoded destination, never lists a destination that
\* fails the acceptance checks, and never lists a wrapper or an empty url.
C16_RedirectsUnwrapped ==
    (Extracted /\ unitCall.fn = "extract_google_results") =>
        /\ \A k \in 1..Len(unitResult.out) :
             /\ ~ StartsWith(unitResult.out[k].url, <<"/url?">>)
             /\ unitResult.out[k].url # <<>>
             /\ unitResult.out[k].url # WrappedInternal
        /\ \A i \in 1..Len(Seen) :
             (Seen[i].has_title /\ Seen[i].text # <<>> /\ Seen[i].has_link
                /\ Seen[i].href = WrappedHref /\ Seen[i].fault = "none") =>
                \E k \in 1..Len(unitResult.out) :
                    unitResult.out[k].url = WrappedDestination

\* a page with both a decodable wrapper and a wrapper without a
\* destination: one result, under the decoded destination
C16_Witness ==
    /\ Extracted /\ unitCall.fn = "extract_google_results"
    /\ Len(Seen) = 2
    /\ Seen[1].href = <<"/url?", "sa=U", "&", "q=">>
    /\ Seen[2].href = WrappedHref
    /\ Len(unitResult.out) = 1
    /\ unitResult.out[1].url = WrappedDestination

\* ------------------------------------------------------------------
\* Content fetch (scrape_webpage_content) applied to one url.  Here a
\* string is the sequence of its characters.
\* ------------------------------------------------------------------

MaxText == 4       \* characters of text in a fetched page
MaxChars == 3      \* largest max_chars handed to the fetch

\* f"Invalid URL: {url}" (line 203)
InvalidUrlText ==
    <<"I", "n", "v", "a", "l", "i", "d", " ", "U", "R", "L", ":", " ">>

\* f"Failed to fetch {url}: {str(e)}" (line 217)
FailedToFetchText ==
    <<"F", "a", "i", "l", "e", "d", " ", "t", "o", " ", "f", "e", "t",
      "c", "h", " ">>

\* f"Could not scrape content from {url}: {str(e)}" (line 257)
CouldNotScrapeText ==
    <<"C", "o", "u", "l", "d", " ", "n", "o", "t", " ", "s", "c", "r",
      "a", "p", "e", " ", "c", "o", "n", "t", "e", "n", "t", " ", "f",
      "r", "o", "m", " ">>

\* the ": " of lines 217 and 257
CauseSep == <<":", " ">>

\* the "..." of line 249
Marker == <<".", ".", ".">>

\* str(None) inside an f-string
NoneText == <<"N", "o", "n", "e">>

\* url.startswith('http') (line 202)
HttpText == <<"h", "t", "t", "p">>

\* the urls handed to the fetch; None stands for a result without one
FetchUrls ==
    { [none |-> FALSE, s |-> <<"h", "t", "t", "p", ":", "/", "/", "a">>],
      [none |-> FALSE, s |-> <<"f", "t", "p", ":", "/", "/", "a">>],
      [none |-> FALSE, s |-> <<>>],
      [none |-> TRUE, s |-> <<>>] }

\* str(url) inside an f-string
UrlText(url) == IF url.none THEN NoneText ELSE url.s

\* str(e) of what requests.get, raise_for_status, BeautifulSoup or
\* url[:50] raised
CauseText(cause) ==
    CASE cause = "status" -> <<"4", "0", "4">>
      [] cause = "timeout" -> <<"t", "i", "m", "e", "d", " ", "o", "u", "t">>
      [] cause = "connection" -> <<"r", "e", "f", "u", "s", "e", "d">>
      [] cause = "parse" -> <<"b", "a", "d", " ", "m", "a", "r", "k", "u", "p">>
      [] OTHER -> <<"n", "o", "t", " ", "s", "u", "b", "s", "c", "r", "i", "p", "t", "a", "b", "l", "e">>

\* get_text() of the main content of a fetched page (line 238)
RawTexts == UNION { [1..n -> {"a", " ", "\n"}] : n \in 0..MaxText }

\* what the network and the page do to one call: requests.get returns,
\* or it (or raise_for_status) raises; the page parses, or parsing raises
Worlds ==
    { [net |-> n, raw |-> <<>>, parses |-> TRUE] :
        n \in {"status", "timeout", "connection"} }
      \cup { [net |-> "ok", raw |-> r, parses |-> TRUE] : r \in RawTexts }
      \cup { [net |-> "ok", raw |-> <<>>, parses |-> FALSE] }

\* re.sub(r'\s+', ' ', text) (line 246): a run of white space becomes
\* one blank
RECURSIVE Collapse(_)
Collapse(s) ==
    IF s = <<>> THEN <<>>
    ELSE IF IsSpace(Head(s))
         THEN <<" ">> \o Collapse(LStrip(s))
         ELSE <<Head(s)>> \o Collapse(Tail(s))

\* lines 241-246: strip the lines, drop the empty chunks, join with
\* blanks, collapse white space, strip
Clean(raw) == Strip(Collapse(raw))

TooLongOrEqual(text, max_chars) == Len(text) >= max_chars

\* len(text) > max_chars (line 248)
TooLong(text, max_chars) == Len(text) > max_chars

TruncateNever(text, max_chars) == text

\* lines 248-249
Truncate(text, max_chars) ==
    IF TooLong(text, max_chars) THEN Take(text, max_chars) \o Marker
    ELSE text

\* a string handed back, after `requests` calls of requests.get
Returns(value, requests, kind) ==
    [exc |-> FALSE, value |-> value, requests |-> requests, kind |-> kind]

\* an exception on its way out, after `requests` calls of requests.get
Raises(cause, requests) ==
    [exc |-> TRUE, value |-> <<>>, requests |-> requests, kind |-> cause]

\* the body of the outer try (lines 199-252)
ScrapeBody(url, max_chars, world) ==
    IF url.none THEN Raises("subscript", 0)
    ELSE IF url.s = <<>> \/ ~ StartsWith(url.s, HttpText)
    THEN Returns(InvalidUrlText \o UrlText(url), 0, "invalid")
    ELSE IF world.net # "ok"
    THEN Returns(FailedToFetchText \o UrlText(url) \o CauseSep
                    \o CauseText(world.net), 1, "failed")
    ELSE IF ~ world.parses THEN Raises("parse", 1)
    ELSE Returns(Truncate(Clean(world.raw), max_chars), 1, "text")

OuterTryAbsent(url, body) == body

\* except Exception (lines 254-257)
OuterTry(url, body) ==
    IF body.exc
    THEN Returns(CouldNotScrapeText \o UrlText(url) \o CauseSep
                    \o CauseText(body.kind), body.requests, "error")
    ELSE body

\* the per-result call of the fetch loops (lines 449, 846)
CallScrape ==
    /\ unitCall = NoCall
    /\ \E url \in FetchUrls, max_chars \in 0..MaxChars, world \in Worlds :
         unitCall' = [fn |-> "scrape_webpage_content", url |-> url,
                      max_chars |-> max_chars, world |-> world]
    /\ UNCHANGED <<vars, unitResult, pub, obs, feed, run>>

\* scrape_webpage_content as a whole (lines 196-257)
ScrapeReturns ==
    /\ unitCall.fn = "scrape_webpage_content"
    /\ unitResult = NoResult
    /\ unitResult' = OuterTry(unitCall.url,
                        ScrapeBody(unitCall.url, unitCall.max_chars,
                                   unitCall.world))
    /\ UNCHANGED <<vars, unitCall, pub, obs, feed, run>>

NextFetch ==
    \/ CallScrape
    \/ ScrapeReturns

SpecFetch == Init /\ [][NextFetch]_allvars

\* ------------------------------------------------------------------
\* Properties of the content fetch
\* ------------------------------------------------------------------

\* scrape_webpage_content has returned to its caller
Fetched == unitCall.fn = "scrape_webpage_content" /\ unitResult # NoResult

\* the call in hand could not deliver the text of the page
FetchFailedCase ==
    \/ unitCall.url.none
    \/ unitCall.url.s = <<>>
    \/ ~ StartsWith(unitCall.url.s, HttpText)
    \/ unitCall.world.net # "ok"
    \/ ~ unitCall.world.parses

\* C17: the fetch never raises: whatever the url and whatever fails, it
\* hands back a string; when the request or the parsing failed the string
\* embeds the url and the cause; after a non-success status exactly one
\* request was made.
C17_FetchNeverRaises ==
    Fetched =>
        /\ ~ unitResult.exc
        /\ FetchFailedCase =>
             /\ unitResult.kind \in {"invalid", "failed", "error"}
             /\ Contains(unitResult.value, UrlText(unitCall.url))
        /\ (~ unitCall.url.none /\ StartsWith(unitCall.url.s, HttpText)
              /\ unitCall.world.net # "ok") =>
             /\ Contains(unitResult.value, CauseText(unitCall.world.net))
             /\ unitResult.requests = 1
        /\ (~ unitCall.url.none /\ StartsWith(unitCall.url.s, HttpText)
              /\ unitCall.world.net = "ok" /\ ~ unitCall.world.parses) =>
             Contains(unitResult.value, CauseText("parse"))

\* a page that was fetched and could not be parsed: a placeholder, one
\* request
C17_Witness ==
    /\ Fetched
    /\ unitCall.world.net = "ok" /\ ~ unitCall.world.parses
    /\ StartsWith(unitCall.url.s, HttpText)
    /\ StartsWith(unitResult.value, CouldNotScrapeText)
    /\ unitResult.requests = 1

\* C18 as stated: whatever the url and the outcome, the returned string
\* is at most max_chars plus the length of the marker long.
C18_LengthBoundedAlways ==
    Fetched => Len(unitResult.value) <= unitCall.max_chars + Len(Marker)

\* C18, amended: the text of a page that was fetched is at most max_chars
\* plus the length of the marker long; a failure placeholder carries the
\* url (and the cause) in full, whatever max_chars is.
C18_LengthBoundedOnSuccess ==
    Fetched =>
        /\ ~ FetchFailedCase =>
             Len(unitResult.value) <= unitCall.max_chars + Len(Marker)
        /\ FetchFailedCase =>
             Len(unitResult.value) > Len(UrlText(unitCall.url))

\* a page whose text was cut: the bound is met exactly
C18_Witness ==
    /\ Fetched /\ ~ FetchFailedCase
    /\ unitCall.max_chars >= 1
    /\ Len(unitResult.value) = unitCall.max_chars + Len(Marker)

\* the fetched text with runs of white space made one blank and the ends
\* stripped has no white space but single inner blanks
IsClean(text) ==
    /\ \A i \in 1..Len(text) : text[i] # "\n"
    /\ \A i \in 1..(Len(text) - 1) : ~ (text[i] = " " /\ text[i + 1] = " ")
    /\ text # <<>> => (text[1] # " " /\ text[Len(text)] # " ")

\* C19: on a successful fetch, cleaned text longer than max_chars comes
\* back as its first max_chars characters followed by '...', and cleaned
\* text of at most max_chars characters comes back as it is.
C19_TruncationExact ==
    (Fetched /\ ~ FetchFailedCase) =>
        LET text == Clean(unitCall.world.raw)
            n == unitCall.max_chars
        IN  /\ IsClean(text)
            /\ Len(text) > n =>
                 /\ Len(unitResult.value) = n + Len(Marker)
                 /\ \A i \in 1..n : unitResult.value[i] = text[i]
                 /\ \A i \in 1..Len(Marker) :
                      unitResult.value[n + i] = Marker[i]
            /\ Len(text) <= n => unitResult.value = text

\* text of exactly max_chars characters that came back without a marker
C19_Witness ==
    /\ Fetched /\ ~ FetchFailedCase
    /\ unitCall.max_chars >= 2
    /\ Len(Clean(unitCall.world.raw)) = unitCall.max_chars
    /\ Len(unitCall.world.raw) > unitCall.max_chars
    /\ unitResult.value = Clean(unitCall.world.raw)

\* ------------------------------------------------------------------
\* The screenshot queue between get_screenshot (the pipeline's side,
\* lines 259-276) and the drain of the page script (lines 1041-1055),
\* statement by statement, the two sides interleaved
\* ------------------------------------------------------------------

MaxShots == 3      \* screenshots taken in one behaviour

\* base64 text of the n-th screenshot (lines 262-263)
Shot(n) == <<"png", ToString(n)>>

\* everything but the queue and the two sides of it
offChannel ==
    <<current_status, search_results, scraped_content, ctl, hist,
      unitCall, unitResult, feed, run>>

\* lines 262-263: page.screenshot succeeds
PubCapture ==
    /\ pub.pc = "idle"
    /\ pub.taken < MaxShots
    /\ pub' = [pub EXCEPT !.pc = "drain", !.shot = Shot(pub.taken + 1),
                          !.taken = pub.taken + 1]
    /\ UNCHANGED <<offChannel, activity, screenshot_queue, obs>>

\* lines 262, 274-276: page.screenshot raises; logged, None returned
PubCaptureFails ==
    /\ pub.pc = "idle"
    /\ pub.taken < MaxShots
    /\ pub' = [pub EXCEPT !.taken = pub.taken + 1]
    /\ LogAll(<<"ERROR">>)
    /\ UNCHANGED <<offChannel, screenshot_queue, obs>>

DrainSkipped(queue) == TRUE

\* `while not self.screenshot_queue.empty()` (line 266) is left
DrainDone(queue) == queue = <<>>

\* line 266: the loop test
PubDrainTest ==
    /\ pub.pc = "drain"
    /\ pub' = [pub EXCEPT !.pc = IF DrainDone(screenshot_queue)
                                 THEN "put" ELSE "get"]
    /\ UNCHANGED <<offChannel, activity, screenshot_queue, obs>>

PubDrainGetReturns ==
    /\ pub.pc = "get"
    /\ IF screenshot_queue # <<>>
       THEN /\ screenshot_queue' = Tail(screenshot_queue)
            /\ pub' = [pub EXCEPT !.pc = "idle"]
       ELSE /\ pub' = [pub EXCEPT !.pc = "put"]
            /\ UNCHANGED screenshot_queue
    /\ UNCHANGED <<offChannel, activity, obs>>

\* lines 267-270: get_nowait takes the oldest image out, or finds the
\* queue emptied meanwhile (queue.Empty: break)
PubDrainGet ==
    /\ pub.pc = "get"
    /\ IF screenshot_queue # <<>>
       THEN /\ screenshot_queue' = Tail(screenshot_queue)
            /\ pub' = [pub EXCEPT !.pc = "drain"]
       ELSE /\ pub' = [pub EXCEPT !.pc = "put"]
            /\ UNCHANGED screenshot_queue
    /\ UNCHANGED <<offChannel, activity, obs>>

\* lines 272-273: put the new image, return
PubPut ==
    /\ pub.pc = "put"
    /\ screenshot_queue' = Append(screenshot_queue, pub.shot)
    /\ pub' = [pub EXCEPT !.pc = "idle",
                          !.unread = IF pub.unread < 2 THEN pub.unread + 1 ELSE 2]
    /\ UNCHANGED <<offChannel, activity, obs>>

\* lines 1042-1043: `if not queue.empty()` found an image
ObsBegin ==
    /\ obs.pc = "idle"
    /\ screenshot_queue # <<>>
    /\ obs' = [pc |-> "test", latest |-> <<>>, waited |-> FALSE]
    /\ UNCHANGED <<offChannel, activity, screenshot_queue, pub>>

\* line 1045: the loop test; lines 1048-1051 show what was taken last
ObsTest ==
    /\ obs.pc = "test"
    /\ obs' = [obs EXCEPT !.pc = IF screenshot_queue = <<>>
                                 THEN "idle" ELSE "get"]
    /\ UNCHANGED <<offChannel, activity, screenshot_queue, pub>>

\* line 1046: queue.get() finds the queue empty and waits for a put
ObsWait ==
    /\ obs.pc = "get"
    /\ screenshot_queue = <<>>
    /\ ~ obs.waited
    /\ obs' = [obs EXCEPT !.waited = TRUE]
    /\ UNCHANGED <<offChannel, activity, screenshot_queue, pub>>

\* line 1046: queue.get() takes the image at the head once there is one
ObsGet ==
    /\ obs.pc = "get"
    /\ screenshot_queue # <<>>
    /\ obs' = [obs EXCEPT !.pc = "test", !.latest = Head(screenshot_queue)]
    /\ screenshot_queue' = Tail(screenshot_queue)
    /\ pub' = [pub EXCEPT !.unread = 0]
    /\ UNCHANGED <<offChannel, activity>>

NextChannel ==
    \/ PubCapture
    \/ PubCaptureFails
    \/ PubDrainTest
    \/ PubDrainGet
    \/ PubPut
    \/ ObsBegin
    \/ ObsTest
    \/ ObsWait
    \/ ObsGet

SpecChannel == Init /\ [][NextChannel]_allvars

\* the pipeline, once inside get_screenshot, runs on to its return (lines
\* 266-273 hold no call that waits), and the page script runs on whenever
\* its next statement can be executed; neither side is obliged to start
\* another capture or another drain
ChannelFairness ==
    /\ WF_allvars(PubDrainTest \/ PubDrainGet \/ PubPut)
    /\ WF_allvars(ObsTest)
    /\ WF_allvars(ObsGet)

SpecChannelLive == Init /\ [][NextChannel]_allvars /\ ChannelFairness

\* ------------------------------------------------------------------
\* Properties of the screenshot queue
\* ------------------------------------------------------------------

\* C20: the queue never holds more than one screenshot, and when two
\* screenshots were published with no read in between, the later one is
\* the only one in the queue.
C20_LatestWins ==
    /\ Len(screenshot_queue) <= 1
    /\ (pub.pc = "idle" /\ pub.unread >= 1) => screenshot_queue = <<pub.shot>>

\* two screenshots published, the observer never read: only the second
\* can be taken out
C20_Witness ==
    /\ pub.pc = "idle"
    /\ pub.unread = 2
    /\ pub.shot = Shot(2)
    /\ obs = ObsIdle
    /\ screenshot_queue = <<Shot(2)>>

\* ------------------------------------------------------------------
\* The activity queue between log_activity (lines 100-108) and the drain
\* of the page script (lines 1079-1088), statement by statement, the two
\* sides interleaved.  Event n is the n-th ActivityLog put on the queue.
\* ------------------------------------------------------------------

MaxEvents == 4     \* events logged in one behaviour

\* everything but the activity queue and its reader
offFeed == <<vars, unitCall, unitResult, pub, obs, run>>

\* line 108: put on a queue.Queue() without maxsize
put(queue, log_entry) == Append(queue, log_entry)

\* log_activity (lines 100-108)
FeedAppend ==
    /\ feed.appended < MaxEvents
    /\ feed' = [feed EXCEPT !.queue = put(feed.queue, feed.appended + 1),
                            !.appended = feed.appended + 1]
    /\ UNCHANGED offFeed

get_nowait_newest(queue) ==
    [item |-> queue[Len(queue)], rest |-> SubSeq(queue, 1, Len(queue) - 1)]

\* queue.get_nowait() on a queue that holds something (line 1083)
get_nowait(queue) == [item |-> Head(queue), rest |-> Tail(queue)]

\* line 1080: new_activity_logs = []
FeedBegin ==
    /\ feed.pc = "idle"
    /\ feed' = [feed EXCEPT !.pc = "test", !.new = <<>>]
    /\ UNCHANGED offFeed

\* line 1082: `while not activity_queue.empty()`
FeedTest ==
    /\ feed.pc = "test"
    /\ feed' = [feed EXCEPT !.pc = IF feed.queue = <<>> THEN "extend" ELSE "get"]
    /\ UNCHANGED offFeed

\* line 1083: new_activity_logs.append(activity_queue.get_nowait());
\* lines 1084-1085: queue.Empty ends the drain
FeedGet ==
    /\ feed.pc = "get"
    /\ IF feed.queue = <<>>
       THEN feed' = [feed EXCEPT !.pc = "extend"]
       ELSE feed' = [feed EXCEPT
                       !.pc = "test",
                       !.queue = get_nowait(feed.queue).rest,
                       !.new = Append(feed.new, get_nowait(feed.queue).item),
                       !.drained = Append(feed.drained,
                                          get_nowait(feed.queue).item)]
    /\ UNCHANGED offFeed

\* line 1088: st.session_state.activity_logs.extend(new_activity_logs)
FeedExtend ==
    /\ feed.pc = "extend"
    /\ feed' = [feed EXCEPT !.pc = "idle", !.logs = feed.logs \o feed.new]
    /\ UNCHANGED offFeed

\* line 1063: a new search empties the list the page shows
FeedReset ==
    /\ feed.pc = "idle"
    /\ feed.logs # <<>>
    /\ feed' = [feed EXCEPT !.logs = <<>>, !.new = <<>>]
    /\ UNCHANGED offFeed

NextFeed ==
    \/ FeedAppend
    \/ FeedBegin
    \/ FeedTest
    \/ FeedGet
    \/ FeedExtend
    \/ FeedReset

SpecFeed == Init /\ [][NextFeed]_allvars

\* ------------------------------------------------------------------
\* Properties of the activity queue
\* ------------------------------------------------------------------

\* C21: however appends and drains interleave, what the observer has
\* drained so far followed by what is still queued is exactly the
\* sequence of events appended so far, and an append is possible
\* whatever the reader is doing.
C21_FeedInOrder ==
    /\ feed.drained \o feed.queue = [n \in 1..feed.appended |-> n]
    /\ feed.appended < MaxEvents => ENABLED FeedAppend

\* two events drained by a drain that was overtaken by a third append
C21_Witness ==
    /\ feed.pc = "get"
    /\ feed.drained = <<1, 2>>
    /\ feed.queue = <<3>>
    /\ feed.new = <<2>>
    /\ feed.logs = <<1>>

\* ------------------------------------------------------------------
\* Properties of consecutive runs
\* ------------------------------------------------------------------

\* the result or item x was read off a page visited in run k
ReadInRun(x, k) ==
    /\ x.url[3] > (k - 1) * RecursionLimit
    /\ x.url[3] <= k * RecursionLimit

\* C22: the record returned by a later run on the same bot, whatever the
\* entry points of the two runs, holds no result and no item that an
\* earlier run produced.
C22_RunReplacesPrior ==
    (Returned /\ run >= 2 /\ HasSummary) =>
        /\ \A i \in 1..Len(record.search_results) :
              ReadInRun(record.search_results[i], run)
        /\ \A i \in 1..Len(record.scraped_content) :
              ReadInRun(record.scraped_content[i], run)

\* a second run through the providers that returned its own results after
\* a first run had left results and a screenshot on the bot
C22_Witness ==
    /\ Returned /\ run = 2 /\ entry = SAS /\ HasSummary
    /\ Len(record.search_results) = 2
    /\ Len(record.scraped_content) = 2
    /\ ReadInRun(record.scraped_content[2], 2)

\* a second run through the responder: the bot still holds the results of
\* the first run, the record returned holds none
C22_ResponderAfterResults ==
    /\ Returned /\ run = 2 /\ entry = AIONLY /\ HasSummary
    /\ search_results # <<>>
    /\ ReadInRun(search_results[1], 1)
    /\ record.search_results = <<>>

\* ------------------------------------------------------------------
\* Properties of one provider invocation
\* ------------------------------------------------------------------

\* the anti-bot markers, found whatever the case of the document
AntiBotMarkers == {"captcha", "unusual traffic"}

Marked(page) == \E w \in page : Lower(w) \in AntiBotMarkers

\* the top frame hands over: a new invocation is entered, or the call is
\* refused at the recursion limit and the frame's except clause takes over
HandsOver ==
    \/ pc' = "enter" /\ Len(stack') = Len(stack) + 1
    \/ pc' = "handler" /\ stack' = stack

\* the invocation is past a check and has not closed its page
PastPreCheck == \E p \in {"cookie", "locate", "wait"} : InProvider(p)
PastPostCheck == \E p \in {"capture", "extract"} : InProvider(p)

C24_TypedOnlyIntoVisible ==
    InProvider("wait") => local.shown

\* C24, first half: with a visible candidate the first one in priority
\* order is the one used
C24_FirstVisibleUsed ==
    (InProvider("wait") /\ local.shown) =>
        local.input \in 1..Len(search_selectors)

\* C25: a timeout of the wait for the results page leaves the invocation
\* running: the step that times out goes to the post-submit check without
\* a failure recorded, and an invocation that timed out goes from an
\* unmarked page to Capture and from Capture to Extract.
C25_WaitTimeoutNonFatal ==
    [][ /\ InProvider("wait") =>
              /\ pc' = "postcheck"
              /\ stack' = stack
              /\ failReason' = failReason
        /\ (InProvider("postcheck") /\ local.timed_out
              /\ ~ PostSubmitBlocked(local.page)) =>
              /\ pc' = "capture" /\ stack' = stack
              /\ failReason' = failReason
        /\ (InProvider("capture") /\ local.timed_out) =>
              /\ pc' = "extract" /\ stack' = stack
              /\ failReason' = failReason ]_vars

\* an invocation whose wait timed out has captured the page and read two
\* results off it
C25_Witness ==
    /\ InProvider("fetch") /\ local.timed_out /\ local.i = 0
    /\ Len(search_results) = 2
    /\ screenshot_queue # <<>>
    /\ failReason[Top.fn] = "none"

\* C26: a capture that fails leaves the snapshot channel as it was, logs
\* an error event and nothing else, and the invocation goes on to Extract.
C26_FailedCaptureKeepsChannel ==
    [][ (InProvider("capture") /\ activity'.last = "ERROR") =>
            /\ screenshot_queue' = screenshot_queue
            /\ pc' = "extract"
            /\ stack' = stack
            /\ failReason' = failReason
            /\ <<current_status, search_results, scraped_content>>' =
                  <<current_status, search_results, scraped_content>> ]_vars

\* the second invocation failed to capture: the snapshot the first one
\* published is still on the channel and the invocation is at Extract
C26_Witness ==
    /\ InProvider("extract") /\ Depth = 2
    /\ activity.last = "ERROR"
    /\ screenshot_queue = << <<"png", entry>> >>
    /\ entry = GOOGLE

\* ------------------------------------------------------------------
\* Properties of the fetch loops
\* ------------------------------------------------------------------

Min(a, b) == IF a <= b THEN a ELSE b

\* a stage has left its fetch loop
FetchLoopDone == InProvider("check") \/ Running(FSAS, "fs_check")

\* C27: when a stage leaves its fetch loop it holds exactly
\* min(max_results, |results|) items, the i-th made of the i-th result, and
\* the content of every item is present: the fetched text, or the
\* placeholder that names the url when the fetch failed.
C27_FetchFailureStillAnItem ==
    FetchLoopDone =>
        /\ Len(scraped_content) = Min(max_results, Len(search_results))
        /\ \A i \in 1..Len(scraped_content) :
              /\ scraped_content[i].url = search_results[i].url
              /\ scraped_content[i].content # <<>>
              /\ scraped_content[i].content[2] = search_results[i].url

\* three results under a cap of two: the first fetch failed, the second
\* did not, and the loop has ended with two items
C27_Witness ==
    /\ InProvider("check")
    /\ Len(search_results) = 3 /\ max_results = 2
    /\ Len(scraped_content) = 2
    /\ scraped_content[1].content[1] = "Failed to fetch"
    /\ scraped_content[2].content[1] = "text of"

\* ------------------------------------------------------------------
\* Properties of the static catalog
\* ------------------------------------------------------------------

CatalogKeywords == {"ai", "artificial", "intelligence", "2024", "trends", "latest"}

\* some word of the query, lower-cased, is a catalog keyword
Matches(q) == \E k \in 1..Len(q) : Lower(q[k]) \in CatalogKeywords

\* the catalog was consulted in this run
Consulted == entry = FSAS /\ started[CATALOG] >= 1

\* C28: the catalog gives a non-empty list exactly when a lower-cased word
\* of the query is a keyword.  Without a match nothing is fetched and the
\* run goes to the responder; with a match the entries are fetched, at most
\* max_results of them, and the loop ends with min(max_results, |entries|)
\* items.
C28_CatalogKeywordMatch ==
    Consulted =>
        /\ (search_results # <<>>) <=> Matches(query)
        /\ ~ Matches(query) =>
              /\ scraped_content = <<>>
              /\ ~ summarized
              /\ Running(AIONLY, "enter") \/ aiCalls >= 1
        /\ Matches(query) =>
              /\ Len(scraped_content) <= Min(max_results, Len(search_results))
              /\ Running(FSAS, "fs_check") =>
                    Len(scraped_content) = Min(max_results, Len(search_results))
              /\ \A i \in 1..Len(scraped_content) :
                    scraped_content[i].url = search_results[i].url

\* the query "AI" matched through lower-casing: of the two entries the
\* catalog gave, one was fetched under a cap of one
C28_Witness ==
    /\ Consulted /\ Running(FSAS, "fs_check")
    /\ query = <<"AI">> /\ max_results = 1
    /\ Len(search_results) = 2
    /\ Len(scraped_content) = 1

\* a query whose words only contain a keyword matched nothing: the run
\* returned the responder's record, nothing fetched
C28_NoMatchGoesToResponder ==
    /\ Consulted /\ Returned /\ HasSummary
    /\ query = <<"cats", "aixyz">>
    /\ search_results = <<>> /\ scraped_content = <<>>
    /\ aiCalls = 1

\* ------------------------------------------------------------------
\* Properties of a whole run
\* ------------------------------------------------------------------

\* C29: within one run no stage is entered a second time.
C29_EachStageOnce ==
    \A s \in Stages : started[s] <= 1

\* C30: a run that returned with status complete logged COMPLETE once, as
\* its last event; a run that returned with status error logged none.
C30_CompleteOnceAndLast ==
    Returned =>
        /\ current_status = "complete" =>
              /\ activity.complete = 1
              /\ activity.last = "COMPLETE"
        /\ current_status = "error" => activity.complete = 0

\* C30 for the runs the page script can start (cap of at least one)
C30_CompleteOnceFromUi ==
    (Returned /\ entry \in UiEntryPoints /\ max_results >= 1) =>
        /\ current_status = "complete" =>
              /\ activity.complete = 1
              /\ activity.last = "COMPLETE"
        /\ current_status = "error" => activity.complete = 0

\* ------------------------------------------------------------------
\* Properties of the Summarizer calls of a run
\* ------------------------------------------------------------------

\* C31: a run calls the Summarizer at most once, over the fetched corpus or
\* in the responder, and a responder call that failed is not made again.
C31_SummarizerAtMostOnce ==
    /\ aiCalls <= 1
    /\ ~ (summarized /\ aiCalls >= 1)

\* C31 for the runs the page script can start
C31_AtMostOnceFromUi ==
    entry \in UiEntryPoints =>
        /\ aiCalls <= 1
        /\ ~ (summarized /\ aiCalls >= 1)

Disclaimed(summary) == summary # <<>> /\ summary[1] = DISCLAIMER

\* C32: a returned record with a summary carries the disclaimer at the
\* head of the summary exactly when its scraped_content is empty, and the
\* corpus Summarizer has only been called with items at hand.
C32_DisclaimerIffNoCorpus ==
    /\ (Returned /\ HasSummary) =>
          (Disclaimed(record.summary) <=> record.scraped_content = <<>>)
    /\ summarized => scraped_content # <<>>

\* the catalog matched but nothing was fetched under a cap of 0: the
\* record lists the entries, holds no item and its summary is the
\* responder's, disclaimer in front
C32_Witness ==
    /\ Returned /\ HasSummary /\ entry = FSAS
    /\ record.search_results # <<>>
    /\ record.scraped_content = <<>>
    /\ Disclaimed(record.summary)
    /\ ~ summarized

\* a provider run that summarized two items: no disclaimer
C32_CorpusSummaryPlain ==
    /\ Returned /\ HasSummary /\ entry = GOOGLE /\ summarized
    /\ Len(record.scraped_content) = 2
    /\ ~ Disclaimed(record.summary)

\* ------------------------------------------------------------------
\* Properties of the observer's drain
\* ------------------------------------------------------------------

\* C33: a drain the observer has begun ends; when it waits in get() on a
\* queue the pipeline emptied, the pipeline is between its drain and its
\* put; what the observer holds when it leaves the loop is the image it
\* took out last.
C33_DrainCompletes ==
    /\ (obs.pc \in {"test", "get"}) ~> (obs.pc = "idle")
    /\ [] ((obs.pc = "get" /\ screenshot_queue = <<>>)
              => pub.pc \in {"drain", "put"})
    /\ [][ /\ (obs.pc = "get" /\ obs'.pc = "test") =>
                 /\ obs'.latest = Head(screenshot_queue)
                 /\ screenshot_queue' = Tail(screenshot_queue)
           /\ (obs.pc = "test" /\ obs'.pc # "test") =>
                 obs'.latest = obs.latest ]_allvars

\* the observer waited in get() on the queue the pipeline had emptied,
\* took the second image when it was put and has left the loop with it
C33_Witness ==
    /\ obs.pc = "idle" /\ obs.waited
    /\ obs.latest = Shot(2)
    /\ pub.pc = "idle" /\ pub.taken = 2
    /\ screenshot_queue = <<>>

\* C34: a document the pre-submit check would stop is stopped by the
\* post-submit check too: no invocation is at Capture or at Extract on a
\* document that the pre-submit check takes for an interstitial.
C34_SameMarkersAtBothChecks ==
    PastPostCheck => ~ PreSubmitBlocked(local.page)
====
